---- MODULE Spec2Model ----
(***************************************************************************)
(* NiriSetup: a bubbletea menu program.  The controller is model.Update,   *)
(* the presentation is model.View, and every menu entry but "Exit" starts  *)
(* a command (a runner) that works outside the event loop and delivers one *)
(* statusMsg.  src/NiriSetup.go is the program with the three screens;     *)
(* src/unnamed/part_000 is the screen-less variant, whose installNiri also *)
(* copies config.kdl.                                                      *)
(***************************************************************************)
EXTENDS Integers, Sequences, FiniteSets, TLC

VARIABLES
    m,            \* the model value held by the event loop
    runners,      \* commands dispatched and not yet delivered, in dispatch order
    quit,         \* tea.Quit was returned: the event loop has ended
    screen,       \* what the last call of View rendered
    installCmds,  \* packages "sudo pkg install -y" was executed for, in order
    console,      \* lines printed to the console by part_000's installNiri
    configDir,    \* ~/.config/niri exists
    destConfig,   \* ~/.config/niri/config.kdl: "absent", "partial" or "copied"
    logFile,      \* content of the log file, as the chunks written to it
    lastEvent,    \* history: the last message handed to Update
    prev,         \* history: the program as it stood when that message arrived
    dispatched,   \* history: number of runners dispatched so far
    completed,    \* history: number of statusMsgs of runners received so far
    validations,  \* history: the outcomes of "niri validate", in order
    keys_000,     \* history: number of key messages part_000's Update received
    boot          \* main before the program starts: setupEnvironment's position,
                  \* the effective user, the environment and the directories in /tmp

vars == <<m, runners, quit, screen, installCmds, console, configDir, destConfig,
          logFile, lastEvent, prev, dispatched, completed, validations,
          keys_000, boot>>

(* ------------------------------ bounds -------------------------------- *)

\* Runners one session may dispatch (the program itself has no limit).
MaxDispatch == 3

\* Combined outputs an external command may print when it fails.
Outputs == {"", "pkg: no packages available"}

\* Contents the log file may have when the program starts.
InitialLogFiles == {<<>>, <<"earlier session\n">>}

(* ----------------------------- data model ----------------------------- *)

menuView == "menuView"
installView == "installView"
actionView == "actionView"

choices == <<"Install Niri", "Configure Niri", "Validate Config", "Save Logs", "Exit">>

pkgs == <<"niri", "wlroots", "xwayland-satellite", "seatd", "waybar", "grim", "jq",
          "wofi", "alacritty", "pam_xdg", "fuzzel", "swaylock", "foot", "wlsunset",
          "swaybg", "mako", "swayidle">>

\* A Go error value: nil, or an error carrying a text.
nil == [isNil |-> TRUE, text |-> ""]
Err(text) == [isNil |-> FALSE, text |-> text]

statusMsg(status, err) == [type |-> "statusMsg", key |-> "", status |-> status, err |-> err]
KeyMsg(key) == [type |-> "KeyMsg", key |-> key, status |-> "", err |-> nil]
NoMsg == [type |-> "none", key |-> "", status |-> "", err |-> nil]

Keys == {"ctrl+c", "q", "up", "down", "enter", "x"}

initialModel ==
    [state |-> menuView, cursor |-> 0, selected |-> "", logs |-> <<>>,
     isProcessing |-> FALSE, progress |-> "", actionMsg |-> ""]

\* The tea.Cmd values Update returns.  saveLogsToFile(m) captures the model
\* it is called with, so the command carries that model's logs.
Cmd(name, logs) == [name |-> name, logs |-> logs]
nilCmd == Cmd("nil", <<>>)
Quit == Cmd("Quit", <<>>)
installNiri == Cmd("installNiri", <<>>)
configureNiri == Cmd("configureNiri", <<>>)
validateNiriConfig == Cmd("validateNiriConfig", <<>>)
saveLogsToFile(mm) == Cmd("saveLogsToFile", mm.logs)

IsRunnerCmd(cmd) == cmd.name \notin {"nil", "Quit"}

(* ----------------------------- controller ----------------------------- *)

\* case "up"
CursorUp(mm) == IF mm.cursor > 0 THEN [mm EXCEPT !.cursor = @ - 1] ELSE mm

\* Mutation of CursorDown: the cursor wraps to the first entry.
CursorDownWraps(mm) == [mm EXCEPT !.cursor = (@ + 1) % Len(choices)]

\* case "down"
CursorDown(mm) == IF mm.cursor < Len(choices) - 1 THEN [mm EXCEPT !.cursor = @ + 1] ELSE mm

\* case "enter"
Enter(mm) ==
    LET m1 == [mm EXCEPT !.selected = choices[mm.cursor + 1], !.isProcessing = TRUE] IN
    CASE m1.selected = "Install Niri" ->
            [m |-> [m1 EXCEPT !.state = installView], cmd |-> installNiri]
      [] m1.selected = "Configure Niri" ->
            LET m2 == [m1 EXCEPT !.state = actionView, !.actionMsg = "Configuring Niri..."]
            IN [m |-> m2, cmd |-> configureNiri]
      [] m1.selected = "Validate Config" ->
            LET m2 == [m1 EXCEPT !.state = actionView,
                                 !.actionMsg = "Validating Niri config..."]
            IN [m |-> m2, cmd |-> validateNiriConfig]
      [] m1.selected = "Save Logs" ->
            LET m2 == [m1 EXCEPT !.state = actionView, !.actionMsg = "Saving logs..."]
            IN [m |-> m2, cmd |-> saveLogsToFile(m2)]
      [] m1.selected = "Exit" -> [m |-> m1, cmd |-> Quit]
      [] OTHER -> [m |-> m1, cmd |-> nilCmd]

\* case tea.KeyMsg, case menuView
UpdateKeyMenu(mm, key) ==
    CASE key \in {"ctrl+c", "q"} -> [m |-> mm, cmd |-> Quit]
      [] key = "up" -> [m |-> CursorUp(mm), cmd |-> nilCmd]
      [] key = "down" -> [m |-> CursorDown(mm), cmd |-> nilCmd]
      [] key = "enter" -> Enter(mm)
      [] OTHER -> [m |-> mm, cmd |-> nilCmd]

\* Mutation of UpdateKeyBusy: keys are handled as on the menu.
UpdateKeyBusyAsMenu(mm, key) == UpdateKeyMenu(mm, key)

\* Mutation of UpdateKeyBusy: navigation keys still move the cursor.
UpdateKeyBusyNavigates(mm, key) ==
    CASE key = "up" -> [m |-> CursorUp(mm), cmd |-> nilCmd]
      [] key = "down" -> [m |-> CursorDown(mm), cmd |-> nilCmd]
      [] OTHER -> [m |-> mm, cmd |-> nilCmd]

\* case tea.KeyMsg, case installView, actionView: input is disabled
UpdateKeyBusy(mm, key) == [m |-> mm, cmd |-> nilCmd]

\* Mutation of UpdateStatusMsg: the log is cleared on every return to the menu.
UpdateStatusMsgClearsLog(mm, msg) ==
    LET m1 == [mm EXCEPT !.logs = Append(@, msg.status), !.isProcessing = FALSE] IN
    IF msg.err = nil /\ m1.state = installView
    THEN [m |-> [m1 EXCEPT !.state = menuView, !.logs = <<>>], cmd |-> nilCmd]
    ELSE IF msg.err = nil /\ m1.state = actionView
    THEN [m |-> [m1 EXCEPT !.state = menuView, !.logs = <<>>, !.actionMsg = msg.status],
          cmd |-> nilCmd]
    ELSE [m |-> m1, cmd |-> nilCmd]

\* Mutation of UpdateStatusMsg: a failed result returns to the menu as well.
UpdateStatusMsgFailureToMenu(mm, msg) ==
    LET m1 == [mm EXCEPT !.logs = Append(@, msg.status), !.isProcessing = FALSE] IN
    IF m1.state = installView
    THEN [m |-> [m1 EXCEPT !.state = menuView,
                           !.logs = IF msg.err = nil THEN <<>> ELSE @], cmd |-> nilCmd]
    ELSE IF m1.state = actionView
    THEN [m |-> [m1 EXCEPT !.state = menuView, !.actionMsg = msg.status], cmd |-> nilCmd]
    ELSE [m |-> m1, cmd |-> nilCmd]

\* case statusMsg
UpdateStatusMsg(mm, msg) ==
    LET m1 == [mm EXCEPT !.logs = Append(@, msg.status), !.isProcessing = FALSE] IN
    IF msg.err = nil /\ m1.state = installView
    THEN [m |-> [m1 EXCEPT !.state = menuView, !.logs = <<>>], cmd |-> nilCmd]
    ELSE IF msg.err = nil /\ m1.state = actionView
    THEN [m |-> [m1 EXCEPT !.state = menuView, !.actionMsg = msg.status], cmd |-> nilCmd]
    ELSE [m |-> m1, cmd |-> nilCmd]

Update(mm, msg) ==
    CASE msg.type = "KeyMsg" /\ mm.state = menuView -> UpdateKeyMenu(mm, msg.key)
      [] msg.type = "KeyMsg" /\ mm.state \in {installView, actionView} ->
            UpdateKeyBusy(mm, msg.key)
      [] msg.type = "statusMsg" -> UpdateStatusMsg(mm, msg)
      [] OTHER -> [m |-> mm, cmd |-> nilCmd]

(* ---------------------------- presentation ---------------------------- *)

\* What a render shows: the screen, its fixed heading, the menu entries it
\* lists and the messages (log lines, action message) it prints.  Each render
\* function also yields its receiver as it stands when the function returns.
Rendering(view, heading, items, shown, mm) ==
    [out |-> [view |-> view, heading |-> heading, items |-> items, shown |-> shown],
     m |-> mm]

MenuItem(mm, i) == (IF mm.cursor = i - 1 THEN ">" ELSE " ") \o " " \o choices[i] \o "\n"

renderMenuView(mm) ==
    LET items == [i \in 1..Len(choices) |-> MenuItem(mm, i)] IN
    IF mm.actionMsg # ""
    THEN Rendering("menu", "NiriSetup Assistant for FreeBSD\n\n", items,
                   <<mm.actionMsg>>, [mm EXCEPT !.actionMsg = ""])
    ELSE Rendering("menu", "NiriSetup Assistant for FreeBSD\n\n", items, <<>>, mm)

renderInstallView(mm) ==
    Rendering("install", "Installing Niri...\n\n", <<>>, mm.logs, mm)

renderActionView(mm) ==
    Rendering("action", "", <<>>, <<mm.actionMsg>>, mm)

\* View has a value receiver: the caller's model is not the one the render
\* functions assign to, so only the rendered output leaves View.
View(mm) ==
    CASE mm.state = menuView -> renderMenuView(mm).out
      [] mm.state = installView -> renderInstallView(mm).out
      [] mm.state = actionView -> renderActionView(mm).out
      [] OTHER -> [view |-> "unknown", heading |-> "Unknown state!", items |-> <<>>,
                   shown |-> <<>>]

(* ------------------------------ runners -------------------------------- *)

\* A dispatched command: the function value the event loop runs outside the
\* Update loop.  pc is its position, i its loop index, logs its slice of log
\* lines (installNiri's local logs, saveLogsToFile's captured m.logs), open
\* whether it holds the log file open, result the statusMsg it returns.
\* Mutation of Runner: the command blocks before its first step.
RunnerBlocked(cmd) ==
    [name |-> cmd.name, pc |-> "blocked", i |-> 1, logs |-> cmd.logs, open |-> FALSE,
     result |-> NoMsg]

Runner(cmd) ==
    [name |-> cmd.name, pc |-> "start", i |-> 1, logs |-> cmd.logs, open |-> FALSE,
     result |-> NoMsg]

\* installNiri of the screen-less variant.
installNiri_000 == Cmd("installNiri_000", <<>>)

\* Mutation of Close: the file is left open.
CloseForgotten(rn) == rn

\* defer file.Close() (a runner that holds no file has nothing to close)
Close(rn) == [rn EXCEPT !.open = FALSE]

Return(rn, msg) == [Close(rn) EXCEPT !.pc = "done", !.result = msg]

\* What exec.Command(...).CombinedOutput() may yield: err == nil, a non-zero
\* exit with the command's combined output, or a command that did not start.
\* exited and code tell which: the command ran and exited with that code, or
\* it never ran.
ExecOutcomes ==
    {[err |-> nil, out |-> "", exited |-> TRUE, code |-> 0]}
    \cup {[err |-> Err("exit status 1"), out |-> o, exited |-> TRUE, code |-> 1] :
             o \in Outputs}
    \cup {[err |-> Err("exec: executable file not found"), out |-> "", exited |-> FALSE,
           code |-> 0]}

\* What a file-system call may yield.
FsOutcomes == {nil, Err("permission denied")}

RECURSIVE Join(_, _)
\* strings.Join
Join(elems, sep) ==
    IF Len(elems) = 0 THEN ""
    ELSE IF Len(elems) = 1 THEN elems[1]
    ELSE elems[1] \o sep \o Join(Tail(elems), sep)

\* src/NiriSetup.go: the rest of the loop body after a successful install,
\* and the return after the last package.
InstallSucceeded(rn) ==
    LET logs == Append(rn.logs, "Successfully installed " \o pkgs[rn.i]) IN
    IF rn.i < Len(pkgs)
    THEN [rn EXCEPT !.logs = logs, !.i = @ + 1]
    ELSE Return([rn EXCEPT !.logs = logs, !.i = @ + 1], statusMsg(Join(logs, "\n"), nil))

\* part_000: the rest of the loop body after a successful install; after the
\* last package the function goes on to the configuration file.
InstallSucceeded_000(rn) ==
    IF rn.i < Len(pkgs)
    THEN [rn EXCEPT !.i = @ + 1]
    ELSE [rn EXCEPT !.i = @ + 1, !.pc = "getwd"]

\* Mutation of InstallFailed: the loop goes on to the next package.
InstallFailedContinues(rn, out) ==
    IF rn.name = "installNiri" THEN InstallSucceeded(rn) ELSE InstallSucceeded_000(rn)

\* if err != nil { return statusMsg{"Failed to install <pkg>", out} }
InstallFailed(rn, out) ==
    Return(rn, statusMsg("Failed to install " \o pkgs[rn.i], Err(out)))

\* One iteration of installNiri's loop: sudo pkg install -y pkgs[i].
InstallPkg(r) ==
    /\ ~quit
    /\ runners[r].name \in {"installNiri", "installNiri_000"}
    /\ runners[r].pc = "start"
    /\ runners[r].i <= Len(pkgs)
    /\ \E o \in ExecOutcomes :
          /\ installCmds' = Append(installCmds, [pkg |-> pkgs[runners[r].i], ok |-> o.err = nil])
          /\ IF o.err # nil
             THEN /\ runners' = [runners EXCEPT ![r] = InstallFailed(@, o.out)]
                  /\ console' = console
             ELSE IF runners[r].name = "installNiri"
             THEN /\ runners' = [runners EXCEPT ![r] = InstallSucceeded(@)]
                  /\ console' = console
             ELSE /\ runners' = [runners EXCEPT ![r] = InstallSucceeded_000(@)]
                  /\ console' = Append(console, "Successfully installed "
                                                \o pkgs[runners[r].i] \o "\n")
    /\ UNCHANGED <<keys_000, boot, completed, validations, m, quit, screen, configDir, destConfig, logFile, lastEvent, prev, dispatched>>

\* part_000: os.Getwd
InstallGetwd(r) ==
    /\ ~quit
    /\ runners[r].name = "installNiri_000"
    /\ runners[r].pc = "getwd"
    /\ \E err \in FsOutcomes :
          runners' = [runners EXCEPT ![r] =
              IF err # nil
              THEN Return(@, statusMsg("Failed to get current working directory", err))
              ELSE [@ EXCEPT !.pc = "mkdir"]]
    /\ UNCHANGED <<keys_000, boot, completed, validations, m, quit, screen, installCmds, console, configDir, destConfig, logFile,
                   lastEvent, prev, dispatched>>

\* part_000: os.MkdirAll(configDir, 0755)
InstallMkdirAll(r) ==
    /\ ~quit
    /\ runners[r].name = "installNiri_000"
    /\ runners[r].pc = "mkdir"
    /\ \E err \in FsOutcomes :
          IF err # nil
          THEN /\ runners' = [runners EXCEPT ![r] =
                      Return(@, statusMsg("Failed to create niri configuration directory", err))]
               /\ configDir' = configDir
          ELSE /\ runners' = [runners EXCEPT ![r].pc = "copy"]
               /\ configDir' = TRUE
    /\ UNCHANGED <<keys_000, boot, completed, validations, m, quit, screen, installCmds, console, destConfig, logFile, lastEvent, prev,
                   dispatched>>

\* copyFile: os.Open(src), os.Create(dst), io.Copy.  A failed Open leaves the
\* destination alone; Create truncates it; a failed Copy leaves it partial.
copyFile(dst, outcome) ==
    CASE outcome = "open fails" -> [dst |-> dst, err |-> Err("open config.kdl: no such file")]
      [] outcome = "create fails" -> [dst |-> dst, err |-> Err("create: permission denied")]
      [] outcome = "copy fails" -> [dst |-> "partial", err |-> Err("copy: input/output error")]
      [] OTHER -> [dst |-> "copied", err |-> nil]

CopyOutcomes == {"open fails", "create fails", "copy fails", "ok"}

\* part_000: copyFile(sourceConfigPath, destConfigPath) and the return
InstallCopyFile(r) ==
    /\ ~quit
    /\ runners[r].name = "installNiri_000"
    /\ runners[r].pc = "copy"
    /\ \E outcome \in CopyOutcomes :
          LET c == copyFile(destConfig, outcome) IN
          /\ destConfig' = c.dst
          /\ runners' = [runners EXCEPT ![r] =
                IF c.err # nil
                THEN Return(@, statusMsg("Failed to copy config.kdl", c.err))
                ELSE Return(@, statusMsg(
                        "Niri installation and configuration completed successfully.", nil))]
    /\ UNCHANGED <<keys_000, boot, completed, validations, m, quit, screen, installCmds, console, configDir, logFile, lastEvent, prev,
                   dispatched>>

\* configureNiri (time.Sleep is not modelled)
ConfigureRun(r) ==
    /\ ~quit
    /\ runners[r].name = "configureNiri"
    /\ runners[r].pc = "start"
    /\ runners' = [runners EXCEPT ![r] =
            Return(@, statusMsg("Niri configuration completed successfully.", nil))]
    /\ UNCHANGED <<keys_000, boot, completed, validations, m, quit, screen, installCmds, console, configDir, destConfig, logFile,
                   lastEvent, prev, dispatched>>

\* Mutation of ValidateResult: the error of the command is not looked at.
ValidateResultIgnoresErr(o) == statusMsg("Niri configuration is valid.", nil)

\* validateNiriConfig's result for one outcome of "niri validate"
ValidateResult(o) ==
    IF o.err # nil
    THEN statusMsg("Validation failed: " \o o.out, o.err)
    ELSE statusMsg("Niri configuration is valid.", nil)

ValidateRun(r) ==
    /\ ~quit
    /\ runners[r].name = "validateNiriConfig"
    /\ runners[r].pc = "start"
    /\ \E o \in ExecOutcomes :
          /\ runners' = [runners EXCEPT ![r] = Return(@, ValidateResult(o))]
          /\ validations' = Append(validations, o)
    /\ UNCHANGED <<keys_000, boot, completed, m, quit, screen, installCmds, console, configDir, destConfig, logFile,
                   lastEvent, prev, dispatched>>

TempDir == "/tmp"
logFilePath == TempDir \o "/" \o "nirisetup.log"

\* saveLogsToFile: os.OpenFile(logFile, O_APPEND|O_CREATE|O_WRONLY, 0644)
SaveOpen(r) ==
    /\ ~quit
    /\ runners[r].name = "saveLogsToFile"
    /\ runners[r].pc = "start"
    /\ \E err \in FsOutcomes :
          runners' = [runners EXCEPT ![r] =
              IF err # nil
              THEN Return(@, statusMsg("Failed to open log file for writing", err))
              ELSE [@ EXCEPT !.pc = "write", !.open = TRUE]]
    /\ UNCHANGED <<keys_000, boot, completed, validations, m, quit, screen, installCmds, console, configDir, destConfig, logFile,
                   lastEvent, prev, dispatched>>

\* Mutation of WriteString: the file was opened without O_APPEND, the write
\* replaces what the file held.
WriteStringOverwrites(file, str) == <<str>>

\* file.WriteString(str) on a file opened with O_APPEND: str goes to the end
WriteString(file, str) == Append(file, str)

\* What file.WriteString(log + "\n") may yield: nil with the whole line
\* written, or an error after nothing or after the line without its newline.
WriteOutcomes(log) ==
    {[err |-> nil, written |-> log \o "\n"],
     [err |-> Err("no space left on device"), written |-> ""],
     [err |-> Err("no space left on device"), written |-> log]}

\* saveLogsToFile: one iteration of the loop, file.WriteString(log + "\n");
\* the deferred file.Close() runs on the failure return.
SaveWrite(r) ==
    /\ ~quit
    /\ runners[r].name = "saveLogsToFile"
    /\ runners[r].pc = "write"
    /\ runners[r].i <= Len(runners[r].logs)
    /\ \E o \in WriteOutcomes(runners[r].logs[runners[r].i]) :
          /\ logFile' = IF o.written = "" THEN logFile ELSE WriteString(logFile, o.written)
          /\ IF o.err # nil
             THEN runners' = [runners EXCEPT ![r] =
                      Return(@, statusMsg("Failed to write to log file", o.err))]
             ELSE runners' = [runners EXCEPT ![r].i = @ + 1]
    /\ UNCHANGED <<keys_000, boot, completed, validations, m, quit, screen, installCmds, console, configDir, destConfig, lastEvent,
                   prev, dispatched>>

\* saveLogsToFile: the return after the loop, with the deferred file.Close()
SaveReturn(r) ==
    /\ ~quit
    /\ runners[r].name = "saveLogsToFile"
    /\ runners[r].pc = "write"
    /\ runners[r].i > Len(runners[r].logs)
    /\ runners' = [runners EXCEPT ![r] =
            Return(@, statusMsg("Logs saved to " \o logFilePath, nil))]
    /\ UNCHANGED <<keys_000, boot, completed, validations, m, quit, screen, installCmds, console, configDir, destConfig, logFile,
                   lastEvent, prev, dispatched>>

(* ------------------------------ startup -------------------------------- *)

\* User IDs are 0..MaxUid.
MaxUid == 2
Uids == 0..MaxUid

Digits == <<"0", "1", "2", "3", "4", "5", "6", "7", "8", "9">>

RECURSIVE Itoa(_)
\* fmt's %d of a non-negative int
Itoa(n) == IF n < 10 THEN Digits[n + 1] ELSE Itoa(n \div 10) \o Digits[(n % 10) + 1]

\* runtimeDir := fmt.Sprintf("/tmp/%d-runtime-dir", userID)
runtimeDir(userID) == "/tmp/" \o Itoa(userID) \o "-runtime-dir"

RuntimeDirs == {runtimeDir(u) : u \in Uids}

\* The two files' main and setupEnvironment.
Files == {"NiriSetup.go", "part_000"}

\* fs[d] is the owner of directory d, or Absent when d does not exist.
Absent == -1

\* The program of src/NiriSetup.go once main has started the UI, as user 0.
Started ==
    [file |-> "NiriSetup.go", pc |-> "ui", euid |-> 0, env |-> runtimeDir(0),
     fs |-> [d \in RuntimeDirs |-> IF d = runtimeDir(0) THEN 0 ELSE Absent], stat |-> nil]

\* The model and the screen before tea.NewProgram(initialModel()).
NoModel == [constructed |-> FALSE]

\* initialModel of part_000
initialModel_000 ==
    [cursor |-> 0, selected |-> "", quitting |-> FALSE, logs |-> <<>>, progress |-> "",
     isProcessing |-> FALSE]

\* View of part_000: the menu, and once an entry was selected the selection,
\* the "Processing" line and the log lines; "Exiting..." when quitting.
View_000(mm) ==
    [view |-> "main", heading |-> "NiriSetup Assistant for FreeBSD\n\n",
     items |-> [i \in 1..Len(choices) |-> MenuItem(mm, i)],
     selected |-> IF mm.selected # "" THEN "\nSelected: " \o mm.selected \o "\n" ELSE "",
     processing |-> mm.selected # "" /\ mm.isProcessing,
     shown |-> IF mm.selected # "" THEN mm.logs ELSE <<>>,
     exiting |-> mm.quitting]

\* What os.Stat(d) may yield: nil for a directory that exists, a not-exist
\* error for one that does not, or another error in either case.
StatOutcomes(fs, d) ==
    {IF fs[d] = Absent THEN Err("no such file or directory") ELSE nil,
     Err("permission denied")}

IsNotExist(err) == err = Err("no such file or directory")

\* userID := os.Geteuid(); runtimeDir := ...; os.Setenv("XDG_RUNTIME_DIR", runtimeDir)
SetupEnv ==
    /\ boot.pc = "setupEnvironment"
    /\ boot' = [boot EXCEPT !.env = runtimeDir(boot.euid), !.pc = "stat"]
    /\ UNCHANGED <<completed, validations, keys_000, m, runners, quit, screen, installCmds, console, configDir, destConfig,
                   logFile, lastEvent, prev, dispatched>>

\* if _, err := os.Stat(runtimeDir); os.IsNotExist(err) { ... } else { ... }
\* part_000 has no else branch.
SetupStat ==
    /\ boot.pc = "stat"
    /\ \E err \in StatOutcomes(boot.fs, boot.env) :
          boot' = [boot EXCEPT !.stat = err,
                      !.pc = IF IsNotExist(err) THEN "mkdir"
                             ELSE IF boot.file = "NiriSetup.go" THEN "owner"
                             ELSE "main"]
    /\ UNCHANGED <<completed, validations, keys_000, m, runners, quit, screen, installCmds, console, configDir, destConfig,
                   logFile, lastEvent, prev, dispatched>>

\* os.Mkdir(runtimeDir, 0700): src/NiriSetup.go ends the process with
\* log.Fatalf when it fails, part_000 prints the error and goes on.
SetupMkdir ==
    /\ boot.pc = "mkdir"
    /\ \E err \in FsOutcomes :
          IF err = nil
          THEN boot' = [boot EXCEPT !.fs[boot.env] = boot.euid, !.pc = "main"]
          ELSE boot' = [boot EXCEPT
                           !.pc = IF boot.file = "NiriSetup.go" THEN "fatal" ELSE "main"]
    /\ UNCHANGED <<completed, validations, keys_000, m, runners, quit, screen, installCmds, console, configDir, destConfig,
                   logFile, lastEvent, prev, dispatched>>

\* src/NiriSetup.go, the else branch: os.Stat again, log.Fatalf when it fails
\* or when the directory's owner is not the current user.
SetupOwner ==
    /\ boot.pc = "owner"
    /\ \E err \in StatOutcomes(boot.fs, boot.env) :
          boot' = [boot EXCEPT !.stat = err,
                      !.pc = IF err # nil THEN "fatal"
                             ELSE IF boot.fs[boot.env] # boot.euid THEN "fatal"
                             ELSE "main"]
    /\ UNCHANGED <<completed, validations, keys_000, m, runners, quit, screen, installCmds, console, configDir, destConfig,
                   logFile, lastEvent, prev, dispatched>>

\* main: p := tea.NewProgram(initialModel()); p.Start()
MainStart ==
    /\ boot.pc = "main"
    /\ boot' = [boot EXCEPT !.pc = "ui"]
    /\ m' = IF boot.file = "NiriSetup.go" THEN initialModel ELSE initialModel_000
    /\ screen' = IF boot.file = "NiriSetup.go" THEN View(initialModel)
                 ELSE View_000(initialModel_000)
    /\ UNCHANGED <<completed, validations, keys_000, runners, quit, installCmds, console, configDir, destConfig, logFile,
                   lastEvent, prev, dispatched>>

(* ----------------------------- event loop ----------------------------- *)

\* The program as a message finds it: its model, the screen on display, the
\* runners outstanding and the runners dispatched so far.
Snapshot(mm, scr, rs, d, file) ==
    [m |-> mm, screen |-> scr, outstanding |-> Len(rs), dispatched |-> d, logFile |-> file]

Remove(seq, r) == [j \in 1..(Len(seq) - 1) |-> IF j < r THEN seq[j] ELSE seq[j + 1]]

\* A key message reaches Update; the command Update returns is started and
\* the new model is rendered.
KeyPress(k) ==
    /\ ~quit
    /\ LET res == Update(m, KeyMsg(k)) IN
          /\ IsRunnerCmd(res.cmd) => dispatched < MaxDispatch
          /\ m' = res.m
          /\ quit' = (res.cmd = Quit)
          /\ runners' = IF IsRunnerCmd(res.cmd) THEN Append(runners, Runner(res.cmd))
                        ELSE runners
          /\ dispatched' = IF IsRunnerCmd(res.cmd) THEN dispatched + 1 ELSE dispatched
          /\ screen' = View(res.m)
    /\ lastEvent' = KeyMsg(k)
    /\ prev' = Snapshot(m, screen, runners, dispatched, logFile)
    /\ UNCHANGED <<keys_000, boot, completed, validations, installCmds, console, configDir, destConfig, logFile>>

\* The statusMsg a finished runner returned reaches Update; the new model is
\* rendered.
Deliver(r) ==
    /\ ~quit
    /\ runners[r].pc = "done"
    /\ completed < MaxDispatch
    /\ LET res == Update(m, runners[r].result) IN
          /\ m' = res.m
          /\ screen' = View(res.m)
    /\ runners' = Remove(runners, r)
    /\ lastEvent' = runners[r].result
    /\ prev' = Snapshot(m, screen, runners, dispatched, logFile)
    /\ completed' = completed + 1
    /\ UNCHANGED <<keys_000, boot, validations, quit, installCmds, console, configDir, destConfig,
                   logFile, dispatched>>

Init ==
    /\ m = initialModel
    /\ runners = <<>>
    /\ quit = FALSE
    /\ screen = View(initialModel)
    /\ installCmds = <<>>
    /\ console = <<>>
    /\ configDir = FALSE
    /\ destConfig = "absent"
    /\ logFile \in InitialLogFiles
    /\ lastEvent = NoMsg
    /\ prev = Snapshot(initialModel, View(initialModel), <<>>, 0, logFile)
    /\ dispatched = 0
    /\ completed = 0
    /\ validations = <<>>
    /\ keys_000 = 0
    /\ boot = Started

Next ==
    \/ \E k \in Keys : KeyPress(k)
    \/ \E r \in 1..Len(runners) : InstallPkg(r)
    \/ \E r \in 1..Len(runners) : ConfigureRun(r)
    \/ \E r \in 1..Len(runners) : ValidateRun(r)
    \/ \E r \in 1..Len(runners) : SaveOpen(r)
    \/ \E r \in 1..Len(runners) : SaveWrite(r)
    \/ \E r \in 1..Len(runners) : SaveReturn(r)
    \/ \E r \in 1..Len(runners) : Deliver(r)

Spec == Init /\ [][Next]_vars

\* The steps of the commands, which run in goroutines of their own, and the
\* event loop's receipt of their messages.
RunnerStep ==
    \E r \in 1..Len(runners) :
        \/ InstallPkg(r)
        \/ ConfigureRun(r)
        \/ ValidateRun(r)
        \/ SaveOpen(r)
        \/ SaveWrite(r)
        \/ SaveReturn(r)

Delivery == \E r \in 1..Len(runners) : Deliver(r)

\* The program with its scheduling: a command that can take a step takes it
\* (the external operations terminate), and the event loop receives every
\* message sent to it.
FairSpec == Spec /\ WF_vars(RunnerStep) /\ WF_vars(Delivery)

\* An Install run on its own, of either file's installNiri, from any state of
\* the configuration directory.
InitInstall ==
    /\ m = initialModel
    /\ \E cmd \in {installNiri, installNiri_000} : runners = <<Runner(cmd)>>
    /\ quit = FALSE
    /\ screen = View(initialModel)
    /\ installCmds = <<>>
    /\ console = <<>>
    /\ configDir \in BOOLEAN
    /\ destConfig \in {"absent", "old"}
    /\ logFile = <<>>
    /\ lastEvent = NoMsg
    /\ prev = Snapshot(initialModel, View(initialModel), <<>>, 0, logFile)
    /\ dispatched = 1
    /\ completed = 0
    /\ validations = <<>>
    /\ keys_000 = 0
    /\ boot = Started

NextInstall ==
    \/ \E r \in 1..Len(runners) : InstallPkg(r)
    \/ \E r \in 1..Len(runners) : InstallGetwd(r)
    \/ \E r \in 1..Len(runners) : InstallMkdirAll(r)
    \/ \E r \in 1..Len(runners) : InstallCopyFile(r)

SpecInstall == InitInstall /\ [][NextInstall]_vars

\* Startup of either file's main, as any user, with any of the runtime
\* directories present or absent and owned by any user.
InitStartup ==
    /\ m = NoModel
    /\ runners = <<>>
    /\ quit = FALSE
    /\ screen = NoModel
    /\ installCmds = <<>>
    /\ console = <<>>
    /\ configDir = FALSE
    /\ destConfig = "absent"
    /\ logFile = <<>>
    /\ lastEvent = NoMsg
    /\ prev = Snapshot(NoModel, NoModel, <<>>, 0, logFile)
    /\ dispatched = 0
    /\ completed = 0
    /\ validations = <<>>
    /\ keys_000 = 0
    /\ \E file \in Files, euid \in Uids, fs \in [RuntimeDirs -> Uids \cup {Absent}] :
          boot = [file |-> file, pc |-> "setupEnvironment", euid |-> euid, env |-> "",
                  fs |-> fs, stat |-> nil]

NextStartup ==
    \/ SetupEnv
    \/ SetupStat
    \/ SetupMkdir
    \/ SetupOwner
    \/ MainStart

SpecStartup == InitStartup /\ [][NextStartup]_vars

\* Save Logs on its own: saveLogsToFile(m) for a model whose log is any
\* sequence of at most MaxLogLines status lines, run to its end and then, when
\* it succeeded, started again with the same model, MaxRuns times in all.
MaxLogLines == 2
MaxRuns == 2

LogLines == {"Niri configuration completed successfully.", "Niri configuration is valid."}

Logs == UNION {[1..n -> LogLines] : n \in 0..MaxLogLines}

InitSave ==
    /\ \E L \in Logs : m = [initialModel EXCEPT !.logs = L]
    /\ runners = <<Runner(saveLogsToFile(m))>>
    /\ quit = FALSE
    /\ screen = View(initialModel)
    /\ installCmds = <<>>
    /\ console = <<>>
    /\ configDir = FALSE
    /\ destConfig = "absent"
    /\ logFile \in InitialLogFiles
    /\ lastEvent = NoMsg
    /\ prev = Snapshot(initialModel, View(initialModel), <<>>, 0, logFile)
    /\ dispatched = 1
    /\ completed = 0
    /\ validations = <<>>
    /\ keys_000 = 0
    /\ boot = Started

SaveAgain ==
    /\ dispatched < MaxRuns
    /\ runners[1].pc = "done"
    /\ runners[1].result.err = nil
    /\ runners' = <<Runner(saveLogsToFile(m))>>
    /\ dispatched' = dispatched + 1
    /\ UNCHANGED <<keys_000, boot, completed, validations, m, quit, screen, installCmds, console, configDir, destConfig,
                   logFile, lastEvent, prev>>

NextSave ==
    \/ \E r \in 1..Len(runners) : SaveOpen(r)
    \/ \E r \in 1..Len(runners) : SaveWrite(r)
    \/ \E r \in 1..Len(runners) : SaveReturn(r)
    \/ SaveAgain

SpecSave == InitSave /\ [][NextSave]_vars

(* ------------------- the screen-less variant's UI -------------------- *)

\* The key inputs of a run of this specification.
MaxKeys_000 == 4

configureNiri_000 == Cmd("configureNiri_000", <<>>)
validateNiriConfig_000 == Cmd("validateNiriConfig_000", <<>>)

\* model.Init of part_000: tea.Batch of the one-second tick, whose message is
\* nil, and of the command that returns the startup statusMsg.
ModelInit_000 == <<Cmd("Tick", <<>>), Cmd("Initializing", <<>>)>>

\* The commands a confirm input dispatches.
ConfirmRunners_000 ==
    {"installNiri_000", "configureNiri_000", "validateNiriConfig_000", "saveLogsToFile"}

\* part_000: case "enter"
Enter_000(mm) ==
    LET m1 == [mm EXCEPT !.selected = choices[mm.cursor + 1], !.isProcessing = TRUE] IN
    CASE m1.selected = "Install Niri" -> [m |-> m1, cmd |-> installNiri_000]
      [] m1.selected = "Configure Niri" -> [m |-> m1, cmd |-> configureNiri_000]
      [] m1.selected = "Validate Config" -> [m |-> m1, cmd |-> validateNiriConfig_000]
      [] m1.selected = "Save Logs" -> [m |-> m1, cmd |-> saveLogsToFile(m1)]
      [] m1.selected = "Exit" -> [m |-> [m1 EXCEPT !.quitting = TRUE], cmd |-> Quit]
      [] OTHER -> [m |-> m1, cmd |-> nilCmd]

\* part_000: case tea.KeyMsg
UpdateKey_000(mm, key) ==
    CASE key \in {"ctrl+c", "q"} -> [m |-> mm, cmd |-> Quit]
      [] key = "up" -> [m |-> CursorUp(mm), cmd |-> nilCmd]
      [] key = "down" -> [m |-> CursorDown(mm), cmd |-> nilCmd]
      [] key = "enter" -> Enter_000(mm)
      [] OTHER -> [m |-> mm, cmd |-> nilCmd]

\* part_000: case statusMsg
UpdateStatusMsg_000(mm, msg) ==
    LET m1 == [mm EXCEPT !.logs = Append(@, msg.status), !.isProcessing = FALSE] IN
    IF msg.err # nil
    THEN [m |-> [m1 EXCEPT !.logs = Append(@, "Error: " \o msg.err.text)], cmd |-> nilCmd]
    ELSE [m |-> m1, cmd |-> nilCmd]

\* part_000: Update; a nil message matches no case
Update_000(mm, msg) ==
    CASE msg.type = "KeyMsg" -> UpdateKey_000(mm, msg.key)
      [] msg.type = "statusMsg" -> UpdateStatusMsg_000(mm, msg)
      [] OTHER -> [m |-> mm, cmd |-> nilCmd]

\* The function tea.Tick runs when the second has passed: it returns nil.
TickRun(r) ==
    /\ ~quit
    /\ runners[r].name = "Tick"
    /\ runners[r].pc = "start"
    /\ runners' = [runners EXCEPT ![r] = Return(@, NoMsg)]
    /\ UNCHANGED <<keys_000, boot, completed, validations, m, quit, screen, installCmds, console, configDir, destConfig, logFile,
                   lastEvent, prev, dispatched>>

\* The second command of model.Init's batch.
InitializingRun(r) ==
    /\ ~quit
    /\ runners[r].name = "Initializing"
    /\ runners[r].pc = "start"
    /\ runners' = [runners EXCEPT ![r] =
            Return(@, statusMsg("Initializing NiriSetup...", nil))]
    /\ UNCHANGED <<keys_000, boot, completed, validations, m, quit, screen, installCmds, console, configDir, destConfig, logFile,
                   lastEvent, prev, dispatched>>

\* part_000: configureNiri
ConfigureRun_000(r) ==
    /\ ~quit
    /\ runners[r].name = "configureNiri_000"
    /\ runners[r].pc = "start"
    /\ runners' = [runners EXCEPT ![r] =
            Return(@, statusMsg("Configuration completed.", nil))]
    /\ UNCHANGED <<keys_000, boot, completed, validations, m, quit, screen, installCmds, console, configDir, destConfig, logFile,
                   lastEvent, prev, dispatched>>

\* part_000: validateNiriConfig's result for one outcome of "niri validate"
ValidateResult_000(o) ==
    IF o.err # nil
    THEN statusMsg("Configuration validation failed: " \o o.out, o.err)
    ELSE statusMsg("Niri configuration is valid.", nil)

\* part_000: validateNiriConfig
ValidateRun_000(r) ==
    /\ ~quit
    /\ runners[r].name = "validateNiriConfig_000"
    /\ runners[r].pc = "start"
    /\ \E o \in ExecOutcomes :
          runners' = [runners EXCEPT ![r] = Return(@, ValidateResult_000(o))]
    /\ UNCHANGED <<keys_000, boot, completed, validations, m, quit, screen, installCmds, console, configDir, destConfig, logFile,
                   lastEvent, prev, dispatched>>

\* An Install was dispatched: it is running, or has run its first command.
InstallDispatched ==
    \/ installCmds # <<>>
    \/ \E r \in 1..Len(runners) : runners[r].name = "installNiri_000"

\* A key message reaches part_000's Update; the command it returns is started
\* and the new model is rendered.  The runs explored have MaxKeys_000 key
\* inputs at most and one Install at most.
KeyPress_000(k) ==
    /\ ~quit
    /\ keys_000 < MaxKeys_000
    /\ LET res == Update_000(m, KeyMsg(k)) IN
          /\ res.cmd = installNiri_000 => ~InstallDispatched
          /\ m' = res.m
          /\ quit' = (res.cmd = Quit)
          /\ runners' = IF IsRunnerCmd(res.cmd) THEN Append(runners, Runner(res.cmd))
                        ELSE runners
          /\ dispatched' = IF IsRunnerCmd(res.cmd) THEN dispatched + 1 ELSE dispatched
          /\ screen' = View_000(res.m)
    /\ keys_000' = keys_000 + 1
    /\ UNCHANGED <<boot, completed, validations, installCmds, console, configDir, destConfig,
                   logFile>>
    /\ lastEvent' = KeyMsg(k)
    /\ prev' = Snapshot(m, screen, runners, dispatched, logFile)

\* The message a finished command returned reaches part_000's Update; the
\* new model is rendered.  completed counts the confirm-dispatched commands.
Deliver_000(r) ==
    /\ ~quit
    /\ runners[r].pc = "done"
    /\ LET res == Update_000(m, runners[r].result) IN
          /\ m' = res.m
          /\ screen' = View_000(res.m)
    /\ runners' = Remove(runners, r)
    /\ lastEvent' = runners[r].result
    /\ prev' = Snapshot(m, screen, runners, dispatched, logFile)
    /\ completed' = IF runners[r].name \in ConfirmRunners_000 THEN completed + 1
                    ELSE completed
    /\ UNCHANGED <<keys_000, boot, validations, quit, installCmds, console, configDir, destConfig,
                   logFile, dispatched>>

\* part_000 once p.Start() has called model.Init and rendered the model.
InitUi_000 ==
    /\ m = initialModel_000
    /\ runners = <<Runner(ModelInit_000[1]), Runner(ModelInit_000[2])>>
    /\ quit = FALSE
    /\ screen = View_000(initialModel_000)
    /\ installCmds = <<>>
    /\ console = <<>>
    /\ configDir = FALSE
    /\ destConfig = "absent"
    /\ logFile = <<>>
    /\ lastEvent = NoMsg
    /\ prev = Snapshot(initialModel_000, View_000(initialModel_000), <<>>, 0, logFile)
    /\ dispatched = 0
    /\ completed = 0
    /\ validations = <<>>
    /\ keys_000 = 0
    /\ boot = [Started EXCEPT !.file = "part_000"]

NextUi_000 ==
    \/ \E k \in Keys : KeyPress_000(k)
    \/ \E r \in 1..Len(runners) : TickRun(r)
    \/ \E r \in 1..Len(runners) : InitializingRun(r)
    \/ \E r \in 1..Len(runners) : InstallPkg(r)
    \/ \E r \in 1..Len(runners) : InstallGetwd(r)
    \/ \E r \in 1..Len(runners) : InstallMkdirAll(r)
    \/ \E r \in 1..Len(runners) : InstallCopyFile(r)
    \/ \E r \in 1..Len(runners) : ConfigureRun_000(r)
    \/ \E r \in 1..Len(runners) : ValidateRun_000(r)
    \/ \E r \in 1..Len(runners) : SaveOpen(r)
    \/ \E r \in 1..Len(runners) : SaveWrite(r)
    \/ \E r \in 1..Len(runners) : SaveReturn(r)
    \/ \E r \in 1..Len(runners) : Deliver_000(r)

SpecUi_000 == InitUi_000 /\ [][NextUi_000]_vars

(* ------------------------------- claims ------------------------------- *)

Busy == {installView, actionView}
QuitKeys == {"ctrl+c", "q"}
Range(seq) == {seq[j] : j \in 1..Len(seq)}

\* C1: in every reachable state, isProcessing implies that the current
\* screen is not the Menu screen.
C1_ProcessingImpliesNotMenu == m.isProcessing => m.state # menuView

\* C2: at most one runner is outstanding at any time, and a confirm input
\* dispatches a runner only when isProcessing is false and no dispatched
\* runner is still to deliver its result.
C2_AtMostOneRunnerOutstanding ==
    /\ Len(runners) <= 1
    /\ dispatched > prev.dispatched => (~prev.m.isProcessing /\ prev.outstanding = 0)

\* C2 witness: a second runner is outstanding after the first was delivered,
\* and a confirm input that arrived while it was outstanding dispatched nothing.
C2_Witness ==
    /\ lastEvent = KeyMsg("enter")
    /\ prev.outstanding = 1
    /\ Len(runners) = 1
    /\ dispatched = 2
    /\ prev.dispatched = 2

\* C3: an ActionResult received in the Running state, whatever the action
\* and whether it succeeded or failed, sets isProcessing to false and returns
\* the controller to the Menu screen.
C3_ResultReturnsToMenu ==
    (lastEvent.type = "statusMsg" /\ prev.m.state \in Busy)
        => (~m.isProcessing /\ m.state = menuView)

\* C4: a quit input ("q" or "ctrl+c") terminates the program in every
\* controller state.
C4_QuitTerminates ==
    (lastEvent.type = "KeyMsg" /\ lastEvent.key \in QuitKeys) => quit

\* C5: the cursor stays within [0, len(choices)-1], up at 0 and down at the
\* last entry are no-ops, and no message handled while the screen is not
\* Menu changes the cursor.
C5_CursorInRange ==
    /\ m.cursor \in 0..(Len(choices) - 1)
    /\ (lastEvent = KeyMsg("up") /\ prev.m.cursor = 0) => m.cursor = 0
    /\ (lastEvent = KeyMsg("down") /\ prev.m.cursor = Len(choices) - 1)
            => m.cursor = Len(choices) - 1
    /\ prev.m.state # menuView => m.cursor = prev.m.cursor

\* C5 witness: after an action has run and completed, down is pressed on the
\* Menu with the cursor on the last entry.
C5_Witness ==
    /\ lastEvent = KeyMsg("down")
    /\ prev.m.state = menuView
    /\ prev.m.cursor = Len(choices) - 1
    /\ dispatched >= 1
    /\ runners = <<>>

\* C6: while the controller is Running, a navigation or confirm input leaves
\* the whole Session unchanged and dispatches nothing, and the completion
\* that follows dispatches nothing either (the input is not replayed).
C6_BusyInputDiscarded ==
    /\ (lastEvent.type = "KeyMsg" /\ lastEvent.key \in {"up", "down", "enter"}
            /\ prev.m.state \in Busy)
        => (m = prev.m /\ dispatched = prev.dispatched /\ Len(runners) <= prev.outstanding)
    /\ lastEvent.type = "statusMsg"
        => (dispatched = prev.dispatched /\ Len(runners) < prev.outstanding
            /\ m.cursor = prev.m.cursor /\ m.selected = prev.m.selected)

\* C6 witness: confirm, confirm before completion; one runner, still at work.
C6_Witness ==
    /\ lastEvent = KeyMsg("enter")
    /\ prev.m.state = installView
    /\ prev.m.isProcessing
    /\ m.isProcessing
    /\ dispatched = 1
    /\ Len(runners) = 1
    /\ runners[1].pc = "start"
    /\ Len(installCmds) > 0

\* C7: when a runner returns a failed ActionResult the process keeps running
\* and the failure message is part of what the screen rendered after the
\* completion shows.
C7_FailureSurfaced ==
    (lastEvent.type = "statusMsg" /\ lastEvent.err # nil)
        => (~quit /\ lastEvent.status \in Range(screen.shown))

\* C8: the result message is shown on the Menu exactly once: the render of
\* the Menu that displays it clears the stored message, and a later render
\* of the Menu with no completion in between shows no result message.
C8_ResultShownOnce ==
    /\ (screen.view = "menu" /\ screen.shown # <<>>) => m.actionMsg = ""
    /\ (lastEvent.type = "KeyMsg" /\ prev.screen.view = "menu" /\ prev.screen.shown # <<>>
            /\ screen.view = "menu")
        => screen.shown = <<>>

\* C9: if installing package k fails, no install command is executed for any
\* later package, the configuration file is not copied, and the result is a
\* failure whose message names package k.
C9_InstallStopsAtFirstFailure ==
    \A k \in 1..Len(installCmds) :
        ~installCmds[k].ok =>
            /\ k = Len(installCmds)
            /\ installCmds[k].pkg = pkgs[k]
            /\ destConfig \notin {"partial", "copied"}
            /\ \A r \in 1..Len(runners) :
                  /\ runners[r].pc = "done"
                  /\ runners[r].result.err # nil
                  /\ runners[r].result.status = "Failed to install " \o pkgs[k]

\* C9 witness: the third package failed after two were installed.
C9_Witness ==
    /\ Len(installCmds) = 3
    /\ installCmds[1].ok
    /\ installCmds[2].ok
    /\ ~installCmds[3].ok
    /\ runners[1].pc = "done"

\* C10: an Install run returns a successful ActionResult only if every
\* package was installed and the configuration file was then copied into the
\* per-user directory, created if absent.
C10_InstallSuccessMeansConfigured ==
    \A r \in 1..Len(runners) :
        (runners[r].pc = "done" /\ runners[r].result.err = nil)
            => /\ Len(installCmds) = Len(pkgs)
               /\ \A k \in 1..Len(installCmds) : installCmds[k].ok
               /\ configDir
               /\ destConfig = "copied"

\* C11: confirming the "Exit" entry terminates the program at once: the
\* screen stays Menu, isProcessing is not set and no runner is dispatched.
C11_ExitEntersNoRunningState ==
    (lastEvent = KeyMsg("enter") /\ prev.m.state = menuView
            /\ choices[prev.m.cursor + 1] = "Exit")
        => /\ quit
           /\ m.state = menuView
           /\ m.isProcessing = prev.m.isProcessing
           /\ dispatched = prev.dispatched
           /\ runners = <<>>

\* C12: the UI is started (a model is constructed) only if the per-user
\* runtime directory exists and is owned by the current effective user ID.
C12_UiOnlyWithOwnedRuntimeDir ==
    (boot.pc = "ui" \/ m # NoModel)
        => (boot.env = runtimeDir(boot.euid) /\ boot.fs[boot.env] = boot.euid)

\* The lines of a log as Save Logs writes them, each newline-terminated.
Lines(L) == [j \in 1..Len(L) |-> L[j] \o "\n"]

RECURSIVE Repeat(_, _)
Repeat(seq, n) == IF n = 0 THEN <<>> ELSE seq \o Repeat(seq, n - 1)

IsPrefix(a, b) == Len(a) <= Len(b) /\ SubSeq(b, 1, Len(a)) = a

\* C13: a successful Save Logs run with log L leaves the file equal to its
\* previous content followed by the lines of L in order, each newline-
\* terminated, and returns a success message with the file's path; a second
\* run with the same L leaves L's lines twice.  The previous content is never
\* overwritten or truncated.
C13_SaveLogsAppends ==
    /\ IsPrefix(prev.logFile, logFile)
    /\ \A r \in 1..Len(runners) :
          (runners[r].pc = "done" /\ runners[r].result.err = nil)
              => /\ logFile = prev.logFile \o Repeat(Lines(m.logs), dispatched)
                 /\ runners[r].result.status = "Logs saved to " \o logFilePath
                 /\ logFilePath = "/tmp/nirisetup.log"

\* C13 witness: the second successful run of a two-line log on a file that
\* already had content.
C13_Witness ==
    /\ dispatched = 2
    /\ Len(m.logs) = 2
    /\ prev.logFile # <<>>
    /\ runners[1].pc = "done"
    /\ runners[1].result.err = nil
    /\ Len(logFile) = 5

\* The log file as a Save Logs run found it: the earlier runs of the same
\* log all succeeded.
FileAtRunStart == prev.logFile \o Repeat(Lines(m.logs), dispatched - 1)

\* C14: when the file cannot be opened or a write fails at line i, Save Logs
\* returns a failed ActionResult; the lines before line i are in the file,
\* nothing of a line after i is, and on every exit path the runner holds no
\* open file handle when it has returned its result.
C14_SaveLogsFailure ==
    \A r \in 1..Len(runners) :
        LET rn == runners[r] IN
        rn.pc = "done" =>
            /\ ~rn.open
            /\ rn.result.err # nil =>
                  /\ rn.result.status \in {"Failed to open log file for writing",
                                           "Failed to write to log file"}
                  /\ rn.result.status = "Failed to open log file for writing"
                        => logFile = FileAtRunStart
                  /\ rn.result.status = "Failed to write to log file" =>
                        LET before == FileAtRunStart \o Lines(SubSeq(rn.logs, 1, rn.i - 1)) IN
                        \/ logFile = before
                        \/ logFile = Append(before, rn.logs[rn.i])

\* C14 witness: the write of the second of two lines failed; the first line
\* is in the file and the handle is closed.
C14_Witness ==
    /\ runners[1].pc = "done"
    /\ runners[1].result.status = "Failed to write to log file"
    /\ runners[1].i = 2
    /\ Len(runners[1].logs) = 2
    /\ logFile = Append(prev.logFile, runners[1].logs[1] \o "\n")
    /\ ~runners[1].open

ExitedNonZero(o) == o.exited /\ o.code # 0

\* The outcome of the "niri validate" run whose result runner r holds.
LastValidation == validations[Len(validations)]

\* C15 as claimed: Validate's result is successful exactly when the
\* validator did not exit non-zero and failed exactly when it exited
\* non-zero; a failure carries the combined output, a success the fixed string.
C15_ValidateIffNotExitedNonZero ==
    \A r \in 1..Len(runners) :
        (runners[r].name = "validateNiriConfig" /\ runners[r].pc = "done") =>
            /\ runners[r].result.err = nil <=> ~ExitedNonZero(LastValidation)
            /\ runners[r].result.err # nil <=> ExitedNonZero(LastValidation)
            /\ runners[r].result.err # nil
                  => runners[r].result.status = "Validation failed: " \o LastValidation.out
            /\ runners[r].result.err = nil
                  => runners[r].result.status = "Niri configuration is valid."

\* C15 amended: Validate's result is successful exactly when the validator
\* ran and exited with code 0, and failed otherwise (a non-zero exit, or a
\* validator that could not be run); a failure carries "Validation failed: "
\* and the combined output, a success the fixed string.
C15_ValidateIffExitedZero ==
    \A r \in 1..Len(runners) :
        (runners[r].name = "validateNiriConfig" /\ runners[r].pc = "done") =>
            /\ runners[r].result.err = nil
                  <=> (LastValidation.exited /\ LastValidation.code = 0)
            /\ runners[r].result.err # nil
                  => runners[r].result.status = "Validation failed: " \o LastValidation.out
            /\ runners[r].result.err = nil
                  => runners[r].result.status = "Niri configuration is valid."

\* C15 witness: the validator exited non-zero with output, and the result
\* is held by the runner.
C15_Witness ==
    /\ Len(runners) = 1
    /\ runners[1].name = "validateNiriConfig"
    /\ runners[1].pc = "done"
    /\ ExitedNonZero(LastValidation)
    /\ LastValidation.out # ""
    /\ runners[1].result.err # nil

\* C16: every dispatched runner delivers exactly one statusMsg, after its
\* dispatch: completions never exceed dispatches, every dispatch is either
\* outstanding or completed once, and whenever a dispatch is outstanding the
\* completions eventually catch up with the dispatches.
C16_OneCompletionPerDispatch ==
    /\ [](completed <= dispatched /\ dispatched = completed + Len(runners))
    /\ (completed < dispatched) ~> (completed = dispatched)

\* C16 witness: two runners have delivered their result and a third is
\* outstanding.
C16_Witness ==
    /\ dispatched = 3
    /\ completed = 2
    /\ Len(runners) = 1
    /\ lastEvent.type = "KeyMsg"

\* C17: the session log is append-only: a received ActionResult appends its
\* message as the new last element and leaves the earlier entries as they
\* were, a key input (a dispatch included) leaves the log unchanged, and the
\* log is emptied only when a successful Install returns to the Menu.
C17_LogAppendOnly ==
    /\ lastEvent.type = "KeyMsg" => m.logs = prev.m.logs
    /\ lastEvent.type = "statusMsg" =>
          IF lastEvent.err = nil /\ prev.m.state = installView
          THEN m.logs = <<>> /\ m.state = menuView
          ELSE m.logs = Append(prev.m.logs, lastEvent.status)

\* C17 witness: a failed result is appended to a log that already holds the
\* message of an earlier action.
C17_Witness ==
    /\ lastEvent.type = "statusMsg"
    /\ lastEvent.err # nil
    /\ Len(prev.m.logs) = 1
    /\ Len(m.logs) = 2
    /\ m.logs[2] = lastEvent.status

\* C18: whenever the Menu carries a result message (actionMsg non-empty in
\* menuView), it is the message of the most recently completed action; stated
\* for the states that follow a completion.
C18_MenuMessageIsLatest ==
    (lastEvent.type = "statusMsg" /\ m.state = menuView /\ m.actionMsg # "")
        => m.actionMsg = lastEvent.status

\* The status of every failed statusMsg a runner can return.
FailureStatuses ==
    {"Failed to install " \o pkgs[k] : k \in 1..Len(pkgs)}
    \cup {ValidateResult(o).status : o \in {x \in ExecOutcomes : x.err # nil}}
    \cup {"Failed to open log file for writing", "Failed to write to log file"}

\* C19: the log handed to a Save Logs runner holds no failure message of
\* Install, Validate or Save Logs, and no such message is written to the log
\* file, in whole or in part.
C19_NoFailureSaved ==
    /\ \A r \in 1..Len(runners) :
          runners[r].name = "saveLogsToFile" =>
              \A j \in 1..Len(runners[r].logs) : runners[r].logs[j] \notin FailureStatuses
    /\ \A j \in 1..Len(logFile) :
          \A f \in FailureStatuses : logFile[j] # f /\ logFile[j] # f \o "\n"

\* C19 witness: a Save Logs run has written the first line of a log of two
\* messages.
C19_Witness ==
    /\ Len(runners) = 1
    /\ runners[1].name = "saveLogsToFile"
    /\ Len(runners[1].logs) = 2
    /\ runners[1].i = 2
    /\ logFile = Append(prev.logFile, runners[1].logs[1] \o "\n")

\* C20: in the screen-less variant, isProcessing is true in every state in
\* which a command dispatched by a confirm input has not yet delivered its
\* statusMsg.
C20_ProcessingWhileOutstanding ==
    (\E r \in 1..Len(runners) : runners[r].name \in ConfirmRunners_000) => m.isProcessing

====
